---- MODULE Spec2Model ----
(***************************************************************************)
(* Model of src/main.py: the BLE advertising payload encoder               *)
(* (advertising_payload) and the peripheral session (BLESimplePeripheral)  *)
(* with its IRQ handler, driven by the radio's Connect / Disconnect /      *)
(* Write events and by the application's send / on_write / is_connected /  *)
(* _advertise calls.                                                       *)
(*                                                                         *)
(* Bytes are naturals 0..255, byte strings are sequences of bytes.         *)
(* Python's None is the string "None" where the other values are strings,  *)
(* and a record with none |-> TRUE where the other values are sequences.   *)
(*                                                                         *)
(* The code is run by MicroPython on the board and by CPython under test.  *)
(* The two differ where the encoder is concerned: CPython's struct.pack    *)
(* raises struct.error for a value out of the format's range and bytes +   *)
(* str raises TypeError; MicroPython's struct.pack truncates the value and *)
(* bytes + str appends the bytes of the str.  The parameter checked of the *)
(* encoder's operators is TRUE for the first and FALSE for the second.     *)
(***************************************************************************)
EXTENDS Integers, Sequences, FiniteSets, TLC

VARIABLES
    connections,      \* self._connections: set of conn_handle
    write_callback,   \* self._write_callback: "None" or a callback
    handle_tx,        \* self._handle_tx
    handle_rx,        \* self._handle_rx
    payload,          \* self._payload: the precomputed advertising data
    led_duty,         \* LED_PWM duty
    adv_count,        \* number of gap_advertise calls the radio has received
    trace,            \* operations delivered to the session, in order
    last,             \* the last operation: its arguments, the calls it made, its outcome
    enc_args,         \* arguments of a call of advertising_payload
    enc_result,       \* what that call produced
    enc_pc,           \* "call" before the call, "done" after it
    queue,            \* events the radio has delivered and the handler has not taken yet
    delivered,        \* all events the radio has delivered, in order
    processed,        \* the events whose handler has returned, in order
    running,          \* <<event>> while its handler is inside pulse, else <<>>
    pulse_i           \* iterations of pulse's loop done in the latest pulse

vars == <<connections, write_callback, handle_tx, handle_rx, payload, led_duty,
          adv_count, trace, last, enc_args, enc_result, enc_pc,
          queue, delivered, processed, running, pulse_i>>

session_vars == <<connections, write_callback, handle_tx, handle_rx, payload,
                  led_duty, adv_count, trace, last>>

enc_vars == <<enc_args, enc_result, enc_pc>>

demo_vars == <<queue, delivered, processed, running, pulse_i>>

(***************************************************************************)
(* Bounds of the model.                                                    *)
(***************************************************************************)
MaxOps == 3            \* operations delivered to one session
MaxServices == 2       \* length of the services list given to the encoder
MaxEvents == 3         \* events the radio delivers to the demo

(***************************************************************************)
(* Program constants.                                                      *)
(***************************************************************************)
_ADV_TYPE_FLAGS == 1
_ADV_TYPE_NAME == 9
_ADV_TYPE_UUID16_COMPLETE == 3
_ADV_TYPE_UUID32_COMPLETE == 5
_ADV_TYPE_UUID128_COMPLETE == 7
_ADV_TYPE_APPEARANCE == 25

_IRQ_CENTRAL_CONNECT == 1
_IRQ_CENTRAL_DISCONNECT == 2
_IRQ_GATTS_WRITE == 3

\* bytes(_UART_UUID): a 128-bit UUID, least significant byte first
_UART_UUID == <<31, 55, 47, 95, 184, 120, 201, 153, 101, 77, 237, 180, 175, 161, 190, 125>>

\* the bytes of the default of BLESimplePeripheral's name parameter, the str "car-leo"
DefaultName == <<99, 97, 114, 45, 108, 101, 111>>

\* the default of _advertise's interval_us parameter
DefaultIntervalUs == 500000

(***************************************************************************)
(* Python values.                                                          *)
(***************************************************************************)
NoneBytes == [none |-> TRUE, b |-> <<>>, str |-> FALSE]

\* a bytes object, or a list
SomeBytes(b) == [none |-> FALSE, b |-> b, str |-> FALSE]

\* a str object, by its bytes
SomeStr(b) == [none |-> FALSE, b |-> b, str |-> TRUE]

\* truth value of an optional bytes / list object: None and the empty one are false
Truthy(x) == ~x.none /\ Len(x.b) > 0

Rep(n, byte) == [i \in 1..n |-> byte]

(***************************************************************************)
(* struct.pack.  A value outside the format's range raises struct.error on *)
(* an interpreter that checks the range (checked = TRUE) and is truncated  *)
(* to the format's width on one that does not (checked = FALSE).           *)
(* AppendName is _append for the name: struct.pack(..) + value raises      *)
(* TypeError for a str on the checking interpreter.                        *)
(***************************************************************************)
Ok(b) == [raised |-> FALSE, bytes |-> b]

Raised == [raised |-> TRUE, bytes |-> <<>>]

\* struct.pack("B", v)
struct_pack_B(checked, v) ==
    IF v \in 0..255 THEN Ok(<<v>>)
    ELSE IF checked THEN Raised
    ELSE Ok(<<v % 256>>)

\* struct.pack("BB", v, w)
struct_pack_BB(checked, v, w) ==
    LET a == struct_pack_B(checked, v)
        b == struct_pack_B(checked, w)
    IN  IF a.raised \/ b.raised THEN Raised ELSE Ok(a.bytes \o b.bytes)

\* struct.pack("<h", v): signed 16 bit, little endian
struct_pack_h(checked, v) ==
    IF v \in (-32768)..32767 THEN Ok(<<(v % 65536) % 256, (v % 65536) \div 256>>)
    ELSE IF checked THEN Raised
    ELSE Ok(<<(v % 65536) % 256, (v % 65536) \div 256>>)

(***************************************************************************)
(* advertising_payload.  acc is the payload so far (or a raised error).    *)
(***************************************************************************)
\* _append whose length byte counts the value only
_append_len(checked, acc, adv_type, value) ==
    IF acc.raised THEN acc
    ELSE LET head == struct_pack_BB(checked, Len(value), adv_type)
         IN  IF head.raised THEN Raised
             ELSE Ok(acc.bytes \o head.bytes \o value)

\* payload += struct.pack("BB", len(value) + 1, adv_type) + value
_append(checked, acc, adv_type, value) ==
    IF acc.raised THEN acc
    ELSE LET head == struct_pack_BB(checked, Len(value) + 1, adv_type)
         IN  IF head.raised THEN Raised
             ELSE Ok(acc.bytes \o head.bytes \o value)

\* _append(_ADV_TYPE_NAME, name): struct.pack is evaluated first, then + name
AppendName(checked, acc, name) ==
    LET r == _append(checked, acc, _ADV_TYPE_NAME, name.b)
    IN  IF r.raised THEN r
        ELSE IF name.str /\ checked THEN Raised
        ELSE r

\* a Flags byte with the discoverability bits swapped
FlagsByte_swapped(limited_disc, br_edr) ==
    (IF limited_disc THEN 2 ELSE 1) + (IF br_edr THEN 24 ELSE 4)

\* the value byte of the Flags field
FlagsByte(limited_disc, br_edr) ==
    (IF limited_disc THEN 1 ELSE 2) + (IF br_edr THEN 24 ELSE 4)

\* an iteration that takes every other length for a 128 bit UUID
AppendUuid_else(checked, acc, b) ==
    IF Len(b) = 2 THEN _append(checked, acc, _ADV_TYPE_UUID16_COMPLETE, b)
    ELSE IF Len(b) = 4 THEN _append(checked, acc, _ADV_TYPE_UUID32_COMPLETE, b)
    ELSE _append(checked, acc, _ADV_TYPE_UUID128_COMPLETE, b)

\* one iteration of "for uuid in services"
AppendUuid(checked, acc, b) ==
    IF Len(b) = 2 THEN _append(checked, acc, _ADV_TYPE_UUID16_COMPLETE, b)
    ELSE IF Len(b) = 4 THEN _append(checked, acc, _ADV_TYPE_UUID32_COMPLETE, b)
    ELSE IF Len(b) = 16 THEN _append(checked, acc, _ADV_TYPE_UUID128_COMPLETE, b)
    ELSE acc

RECURSIVE AppendServices(_, _, _, _)
\* the loop "for uuid in services", from index i on
AppendServices(checked, acc, services, i) ==
    IF i > Len(services) THEN acc
    ELSE AppendServices(checked, AppendUuid(checked, acc, services[i]), services, i + 1)

\* an encoder that appends the name after the services
advertising_payload_namelast(checked, limited_disc, br_edr, name, services, appearance) ==
    LET flagsv == struct_pack_B(checked, FlagsByte(limited_disc, br_edr))
        p1 == IF flagsv.raised THEN Raised
              ELSE _append(checked, Ok(<<>>), _ADV_TYPE_FLAGS, flagsv.bytes)
        p2 == IF Truthy(services) THEN AppendServices(checked, p1, services.b, 1) ELSE p1
        p3 == IF Truthy(name) THEN AppendName(checked, p2, name) ELSE p2
        appv == struct_pack_h(checked, appearance)
        p4 == IF appearance # 0
              THEN (IF p3.raised \/ appv.raised THEN Raised
                    ELSE _append(checked, p3, _ADV_TYPE_APPEARANCE, appv.bytes))
              ELSE p3
    IN  p4

advertising_payload(checked, limited_disc, br_edr, name, services, appearance) ==
    LET flagsv == struct_pack_B(checked, FlagsByte(limited_disc, br_edr))
        p1 == IF flagsv.raised THEN Raised
              ELSE _append(checked, Ok(<<>>), _ADV_TYPE_FLAGS, flagsv.bytes)
        p2 == IF Truthy(name) THEN AppendName(checked, p1, name) ELSE p1
        p3 == IF Truthy(services) THEN AppendServices(checked, p2, services.b, 1) ELSE p2
        appv == struct_pack_h(checked, appearance)
        p4 == IF appearance # 0
              THEN (IF p3.raised \/ appv.raised THEN Raised
                    ELSE _append(checked, p3, _ADV_TYPE_APPEARANCE, appv.bytes))
              ELSE p3
    IN  p4

(***************************************************************************)
(* The encoder on its own: Init draws the arguments, Encode applies it.    *)
(***************************************************************************)
\* names given to the encoder: None, b"", one byte, b"car-leo", 254 and 255 bytes,
\* and the str "car-leo"
EncNames ==
    {NoneBytes, SomeBytes(<<>>), SomeBytes(<<65>>), SomeBytes(DefaultName),
     SomeBytes(Rep(254, 65)), SomeBytes(Rep(255, 65)), SomeStr(DefaultName)}

\* bytes(uuid) of the services given to the encoder: 16, 32 and 128 bit UUIDs,
\* and objects of 3 and of 0 bytes
EncUuids == {<<13, 24>>, <<1, 2, 3, 4>>, _UART_UUID, <<9, 8, 7>>, <<>>}

EncServiceLists == UNION {[1..n -> EncUuids] : n \in 0..MaxServices}

EncServices == {NoneBytes} \cup {SomeBytes(l) : l \in EncServiceLists}

EncAppearances == {0, 1, 832, 32767, 32768, 65535}

EncArgs ==
    [limited_disc : BOOLEAN, br_edr : BOOLEAN, name : EncNames,
     services : EncServices, appearance : EncAppearances]

\* a construction that also advertises an appearance
InitArgs_appearance ==
    [limited_disc |-> FALSE, br_edr |-> FALSE, name |-> SomeStr(DefaultName),
     services |-> SomeBytes(<<_UART_UUID>>), appearance |-> 832]

\* the call made by BLESimplePeripheral.__init__
InitArgs ==
    [limited_disc |-> FALSE, br_edr |-> FALSE, name |-> SomeStr(DefaultName),
     services |-> SomeBytes(<<_UART_UUID>>), appearance |-> 0]

Apply(checked, a) ==
    advertising_payload(checked, a.limited_disc, a.br_edr, a.name, a.services, a.appearance)

(***************************************************************************)
(* The session.                                                            *)
(***************************************************************************)
ConnHandles == {0, 1}          \* conn_handle values the radio issues

AttrHandles == {8, 10, 11}     \* value handles of the GATT database

Values == {<<0>>, <<1, 2>>}    \* values gatts_read returns

SendData == {<<>>, <<7>>}      \* data given to send

Callbacks == {"on_receive", "other_cb"}   \* demo's on_receive and another function

NoHandle == -1

\* pwm.duty(int(math.sin(i / 10 * math.pi) * 500 + 500)) for i in range(20)
PulseDuty ==
    <<500, 654, 793, 904, 975, 1000, 975, 904, 793, 654,
      500, 345, 206, 95, 24, 0, 24, 95, 206, 345>>

\* a pulse that stops one step early
PulseSteps_19 == 20 - 1

\* range(20) of pulse
PulseSteps == 20

\* a radio event: Connect or Disconnect of h, or Write on value handle vh
Event(op, h, vh) == [op |-> op, h |-> h, vh |-> vh]

is_connected(conns) == Cardinality(conns) > 0

\* _advertise that does not reach the radio
_advertise_none(interval_us, adv_data) == <<>>

\* _advertise that passes an empty payload
_advertise_blank(interval_us, adv_data) == <<[interval_us |-> interval_us, adv_data |-> <<>>]>>

\* the gap_advertise calls _advertise makes: one
_advertise(interval_us, adv_data) == <<[interval_us |-> interval_us, adv_data |-> adv_data]>>

\* a Connect that forgets the connections it had
add_replace(conns, h) == {h}

\* a Connect that drops a handle it already holds
add_toggle(conns, h) == IF h \in conns THEN conns \ {h} ELSE conns \cup {h}

\* self._connections.add(conn_handle)
add(conns, h) == conns \cup {h}

\* a Write that fires whenever the handle matches
ShouldFire_nocheck(value_handle, rx, callback) == value_handle = rx

\* value_handle == self._handle_rx and self._write_callback
ShouldFire(value_handle, rx, callback) == value_handle = rx /\ callback # "None"

\* a send that stops after the first connection
NotifyAll_first(order, tx, data) ==
    [i \in 1..(IF Len(order) > 0 THEN 1 ELSE 0) |->
        [conn_handle |-> order[i], value_handle |-> tx, data |-> data]]

\* the gatts_notify calls of send, visiting the connections in this order
NotifyAll(order, tx, data) ==
    [i \in 1..Len(order) |->
        [conn_handle |-> order[i], value_handle |-> tx, data |-> data]]

Entry(op, h, cb) == [op |-> op, h |-> h, cb |-> cb]

NoLast ==
    [op |-> "", conn_handle |-> NoHandle, value_handle |-> NoHandle, data |-> <<>>,
     callback |-> "None", raised |-> FALSE, pre_connections |-> {},
     advertised |-> <<>>, notified |-> <<>>, read |-> <<>>, called |-> <<>>,
     ret |-> FALSE, init_calls |-> <<>>, failed |-> 0]

\* the radio calls of __init__, in order
InitCalls ==
    <<"active(True)", "irq(handler=self._irq)", "gatts_register_services", "gap_advertise">>

\* orders in which "for conn_handle in self._connections" can visit the set
Orders(S) ==
    {f \in [1..Cardinality(S) -> S] : \A i, j \in 1..Cardinality(S) : i # j => f[i] # f[j]}

\* BLESimplePeripheral.__init__(ble), args being the arguments it gives to
\* advertising_payload.  When advertising_payload raises
\* (line 108) the radio has seen active, irq and gatts_register_services,
\* self._payload is not assigned and no session is returned; when
\* gap_advertise raises (adv_fails) the call was made and no session is
\* returned either.
Construct(args, checked, adv_fails) ==
    /\ \E tx, rx \in AttrHandles :
          /\ tx < rx
          /\ handle_tx = tx
          /\ handle_rx = rx
    /\ connections = {}
    /\ write_callback = "None"
    /\ enc_args = args
    /\ enc_result = Apply(checked, enc_args)
    /\ enc_pc = "done"
    /\ payload = enc_result.bytes
    /\ led_duty = 0
    /\ trace = <<>>
    /\ IF enc_result.raised
       THEN /\ adv_count = 0
            /\ last = [NoLast EXCEPT !.op = "__init__",
                                     !.init_calls = SubSeq(InitCalls, 1, 3),
                                     !.raised = TRUE]
       ELSE /\ adv_count = Len(_advertise(DefaultIntervalUs, payload))
            /\ last = [NoLast EXCEPT !.op = "__init__",
                                     !.init_calls = InitCalls,
                                     !.advertised = _advertise(DefaultIntervalUs, payload),
                                     !.failed = IF adv_fails THEN 1 ELSE 0,
                                     !.raised = adv_fails]
    /\ queue = <<>>
    /\ delivered = <<>>
    /\ processed = <<>>
    /\ running = <<>>
    /\ pulse_i = 0

\* the names __init__ is given: the default of line 95, a str, and the same
\* name as bytes
InitNames == {SomeStr(DefaultName), SomeBytes(DefaultName)}

\* BLESimplePeripheral(ble) and BLESimplePeripheral(ble, name), on either
\* interpreter, on a radio that works
Init ==
    \E name \in InitNames, checked \in BOOLEAN :
        Construct([InitArgs EXCEPT !.name = name], checked, FALSE)

\* __init__ has returned a session
Constructed == ~(last.op = "__init__" /\ last.raised)

CanStep == Constructed /\ Len(trace) < MaxOps

\* the radio calls _irq with ev and the handler returns (or raises)
Handled(ev) ==
    /\ delivered' = Append(delivered, ev)
    /\ processed' = Append(processed, ev)
    /\ UNCHANGED <<queue, running, pulse_i>>

\* the radio calls _irq with ev and the handler is inside pulse
Entered(ev) ==
    /\ delivered' = Append(delivered, ev)
    /\ running' = <<ev>>
    /\ pulse_i' = 0
    /\ UNCHANGED <<queue, processed>>

\* _irq(_IRQ_CENTRAL_CONNECT, (conn_handle, _, _))
IrqConnect(h) ==
    /\ CanStep
    /\ running = <<>>
    /\ connections' = add(connections, h)
    /\ led_duty' = 1000
    /\ trace' = Append(trace, Entry("connect", h, "None"))
    /\ last' = [NoLast EXCEPT !.op = "connect", !.conn_handle = h,
                              !.pre_connections = connections]
    /\ Handled(Event("connect", h, NoHandle))
    /\ UNCHANGED <<write_callback, handle_tx, handle_rx, payload, adv_count, enc_vars>>

\* _irq(_IRQ_CENTRAL_DISCONNECT, (conn_handle, _, _)): set.remove raises KeyError
\* when conn_handle is not in the set, and the rest of the branch is not run
IrqDisconnect(h) ==
    /\ CanStep
    /\ running = <<>>
    /\ trace' = Append(trace, Entry("disconnect", h, "None"))
    /\ IF h \in connections
       THEN /\ connections' = connections \ {h}
            /\ led_duty' = 0
            /\ adv_count' = adv_count + Len(_advertise(DefaultIntervalUs, payload))
            /\ last' = [NoLast EXCEPT !.op = "disconnect", !.conn_handle = h,
                                      !.pre_connections = connections,
                                      !.advertised = _advertise(DefaultIntervalUs, payload)]
       ELSE /\ last' = [NoLast EXCEPT !.op = "disconnect", !.conn_handle = h,
                                      !.pre_connections = connections,
                                      !.raised = TRUE]
            /\ UNCHANGED <<connections, led_duty, adv_count>>
    /\ Handled(Event("disconnect", h, NoHandle))
    /\ UNCHANGED <<write_callback, handle_tx, handle_rx, payload, enc_vars>>

\* _irq(_IRQ_GATTS_WRITE, (conn_handle, value_handle)); value is what gatts_read
\* returns.  The callback is called; on_receive enters pulse, whose loop goes
\* on in PulseStep, and the handler returns in PulseDone; another callback
\* returns at once.
IrqWrite(h, vh, value) ==
    /\ CanStep
    /\ running = <<>>
    /\ trace' = Append(trace, Entry("write", h, "None"))
    /\ LET fire == ShouldFire(vh, handle_rx, write_callback)
       IN  /\ last' = [NoLast EXCEPT !.op = "write", !.conn_handle = h,
                                     !.value_handle = vh,
                                     !.pre_connections = connections,
                                     !.read = <<[value_handle |-> vh, value |-> value]>>,
                                     !.called = IF fire
                                                THEN <<[callback |-> write_callback,
                                                        value |-> value]>>
                                                ELSE <<>>]
           /\ IF fire /\ write_callback = "on_receive"
              THEN Entered(Event("write", h, vh))
              ELSE Handled(Event("write", h, vh))
    /\ UNCHANGED <<connections, write_callback, handle_tx, handle_rx, payload,
                   led_duty, adv_count, enc_vars>>

\* one iteration of pulse's loop: pwm.duty(...) and time.sleep(t/1E3)
PulseStep ==
    /\ running # <<>>
    /\ pulse_i < PulseSteps
    /\ led_duty' = PulseDuty[pulse_i + 1]
    /\ pulse_i' = pulse_i + 1
    /\ UNCHANGED <<connections, write_callback, handle_tx, handle_rx, payload,
                   adv_count, trace, last, enc_vars, queue, delivered, processed,
                   running>>

\* the loop is over: on_receive prints and the handler returns
PulseDone ==
    /\ running # <<>>
    /\ pulse_i >= PulseSteps
    /\ processed' = Append(processed, running[1])
    /\ running' = <<>>
    /\ UNCHANGED <<session_vars, enc_vars, queue, delivered, pulse_i>>

\* a send that forgets the connections it has notified
send_drain(data) ==
    /\ CanStep
    /\ trace' = Append(trace, Entry("send", NoHandle, "None"))
    /\ \E order \in Orders(connections) :
          last' = [NoLast EXCEPT !.op = "send", !.data = data,
                                 !.pre_connections = connections,
                                 !.notified = NotifyAll(order, handle_tx, data)]
    /\ connections' = {}
    /\ UNCHANGED <<write_callback, handle_tx, handle_rx, payload,
                   led_duty, adv_count, enc_vars, demo_vars>>

\* send(data): one gatts_notify per element of self._connections, in iteration order
send(data) ==
    /\ CanStep
    /\ trace' = Append(trace, Entry("send", NoHandle, "None"))
    /\ \E order \in Orders(connections) :
          last' = [NoLast EXCEPT !.op = "send", !.data = data,
                                 !.pre_connections = connections,
                                 !.notified = NotifyAll(order, handle_tx, data)]
    /\ UNCHANGED <<connections, write_callback, handle_tx, handle_rx, payload,
                   led_duty, adv_count, enc_vars, demo_vars>>

\* is_connected()
IsConnected ==
    /\ CanStep
    /\ trace' = Append(trace, Entry("is_connected", NoHandle, "None"))
    /\ last' = [NoLast EXCEPT !.op = "is_connected", !.pre_connections = connections,
                              !.ret = is_connected(connections)]
    /\ UNCHANGED <<connections, write_callback, handle_tx, handle_rx, payload,
                   led_duty, adv_count, enc_vars, demo_vars>>

\* _advertise() with the default interval
Advertise ==
    /\ CanStep
    /\ trace' = Append(trace, Entry("advertise", NoHandle, "None"))
    /\ adv_count' = adv_count + Len(_advertise(DefaultIntervalUs, payload))
    /\ last' = [NoLast EXCEPT !.op = "advertise", !.pre_connections = connections,
                              !.advertised = _advertise(DefaultIntervalUs, payload)]
    /\ UNCHANGED <<connections, write_callback, handle_tx, handle_rx, payload,
                   led_duty, enc_vars, demo_vars>>

\* an on_write that keeps a callback that is already registered
Register_first(slot, callback) == IF slot = "None" THEN callback ELSE slot

\* the slot after on_write(callback)
Register(slot, callback) == callback

\* on_write(callback); callback may be None
on_write(callback) ==
    /\ CanStep
    /\ trace' = Append(trace, Entry("on_write", NoHandle, callback))
    /\ write_callback' = Register(write_callback, callback)
    /\ last' = [NoLast EXCEPT !.op = "on_write", !.callback = callback,
                              !.pre_connections = connections]
    /\ UNCHANGED <<connections, handle_tx, handle_rx, payload, led_duty, adv_count,
                   enc_vars, demo_vars>>

Next ==
    \/ \E h \in ConnHandles : IrqConnect(h)
    \/ \E h \in ConnHandles : IrqDisconnect(h)
    \/ \E h \in ConnHandles, vh \in AttrHandles, value \in Values : IrqWrite(h, vh, value)
    \/ \E data \in SendData : send(data)
    \/ IsConnected
    \/ Advertise
    \/ \E callback \in Callbacks \cup {"None"} : on_write(callback)
    \/ PulseStep
    \/ PulseDone

Spec == Init /\ [][Next]_vars

(***************************************************************************)
(* The session on a radio whose gatts_notify and gap_advertise can fail    *)
(* (they raise OSError).  last.failed is the index of the call that        *)
(* failed among the calls of the operation.                                *)
(***************************************************************************)
\* a send that swallows the error and goes on with the other connections
NotifyUntil_continue(order, tx, data, k) == NotifyAll(order, tx, data)

\* the gatts_notify calls of a send whose k-th call raises
NotifyUntil(order, tx, data, k) == SubSeq(NotifyAll(order, tx, data), 1, k)

\* send(data) where the k-th gatts_notify raises: the loop is left
send_fails(data) ==
    /\ CanStep
    /\ trace' = Append(trace, Entry("send", NoHandle, "None"))
    /\ \E order \in Orders(connections) : \E k \in 1..Len(order) :
          last' = [NoLast EXCEPT !.op = "send", !.data = data,
                                 !.pre_connections = connections,
                                 !.notified = NotifyUntil(order, handle_tx, data, k),
                                 !.failed = k,
                                 !.raised = TRUE]
    /\ UNCHANGED <<connections, write_callback, handle_tx, handle_rx, payload,
                   led_duty, adv_count, enc_vars, demo_vars>>

\* _irq(_IRQ_CENTRAL_DISCONNECT, ...) for a tracked handle where gap_advertise
\* raises: the handle is removed and the LED is off before the call
IrqDisconnect_fails(h) ==
    /\ CanStep
    /\ running = <<>>
    /\ h \in connections
    /\ trace' = Append(trace, Entry("disconnect", h, "None"))
    /\ connections' = connections \ {h}
    /\ led_duty' = 0
    /\ adv_count' = adv_count + Len(_advertise(DefaultIntervalUs, payload))
    /\ last' = [NoLast EXCEPT !.op = "disconnect", !.conn_handle = h,
                              !.pre_connections = connections,
                              !.advertised = _advertise(DefaultIntervalUs, payload),
                              !.failed = 1,
                              !.raised = TRUE]
    /\ Handled(Event("disconnect", h, NoHandle))
    /\ UNCHANGED <<write_callback, handle_tx, handle_rx, payload, enc_vars>>

\* _advertise() where gap_advertise raises: the call was made, the session
\* is as it was
Advertise_fails ==
    /\ CanStep
    /\ trace' = Append(trace, Entry("advertise", NoHandle, "None"))
    /\ adv_count' = adv_count + Len(_advertise(DefaultIntervalUs, payload))
    /\ last' = [NoLast EXCEPT !.op = "advertise", !.pre_connections = connections,
                              !.advertised = _advertise(DefaultIntervalUs, payload),
                              !.failed = 1,
                              !.raised = TRUE]
    /\ UNCHANGED <<connections, write_callback, handle_tx, handle_rx, payload,
                   led_duty, enc_vars, demo_vars>>

\* construction on a radio whose gap_advertise may raise at line 111
InitFail ==
    \E name \in InitNames, checked \in BOOLEAN, adv_fails \in BOOLEAN :
        Construct([InitArgs EXCEPT !.name = name], checked, adv_fails)

NextFail ==
    \/ Next
    \/ \E data \in SendData : send_fails(data)
    \/ \E h \in ConnHandles : IrqDisconnect_fails(h)
    \/ Advertise_fails

SpecFail == InitFail /\ [][NextFail]_vars

(***************************************************************************)
(* The demo: on_receive is the write callback, the radio queues events and *)
(* the handler takes one at a time; pulse runs step by step inside it.     *)
(***************************************************************************)
\* the events the radio delivers: Connect and Disconnect of each handle, and
\* Write on each attribute handle
DemoEvents ==
    {Event(op, h, NoHandle) : op \in {"connect", "disconnect"}, h \in ConnHandles}
        \cup {Event("write", 0, vh) : vh \in AttrHandles}

\* demo(): BLESimplePeripheral(ble) with the default name, then
\* on_write(on_receive).  When the construction raises, demo is left with it:
\* on_receive is not registered and the loop is not reached.
InitDemo ==
    \E checked \in BOOLEAN :
        IF Apply(checked, InitArgs).raised
        THEN Construct(InitArgs, checked, FALSE)
        ELSE /\ \E tx, rx \in AttrHandles :
                   /\ tx < rx
                   /\ handle_tx = tx
                   /\ handle_rx = rx
             /\ connections = {}
             /\ write_callback = Register("None", "on_receive")
             /\ enc_args = InitArgs
             /\ enc_result = Apply(checked, InitArgs)
             /\ enc_pc = "done"
             /\ payload = enc_result.bytes
             /\ led_duty = 0
             /\ adv_count = Len(_advertise(DefaultIntervalUs, payload))
             /\ trace = <<>>
             /\ last = [NoLast EXCEPT !.op = "on_write", !.callback = "on_receive"]
             /\ queue = <<>>
             /\ delivered = <<>>
             /\ processed = <<>>
             /\ running = <<>>
             /\ pulse_i = 0

\* one turn of demo's loop: is_connected() is read (line 161)
DemoLoop ==
    /\ Constructed
    /\ last' = [NoLast EXCEPT !.op = "is_connected", !.pre_connections = connections,
                              !.ret = is_connected(connections)]
    /\ UNCHANGED <<connections, write_callback, handle_tx, handle_rx, payload,
                   led_duty, adv_count, trace, enc_vars, demo_vars>>

\* the radio delivers an event; it waits until the handler is free
Deliver(ev) ==
    /\ Constructed
    /\ Len(delivered) < MaxEvents
    /\ queue' = Append(queue, ev)
    /\ delivered' = Append(delivered, ev)
    /\ UNCHANGED <<session_vars, enc_vars, processed, running, pulse_i>>

\* _irq is entered with the oldest waiting event; Connect and Disconnect run
\* to their end, a Write that fires enters on_receive and so pulse
Dispatch ==
    /\ running = <<>>
    /\ queue # <<>>
    /\ queue' = Tail(queue)
    /\ LET ev == Head(queue)
       IN  \/ /\ ev.op = "connect"
              /\ connections' = add(connections, ev.h)
              /\ led_duty' = 1000
              /\ processed' = Append(processed, ev)
              /\ UNCHANGED <<adv_count, running, pulse_i>>
           \/ /\ ev.op = "disconnect"
              /\ IF ev.h \in connections
                 THEN /\ connections' = connections \ {ev.h}
                      /\ led_duty' = 0
                      /\ adv_count' = adv_count + Len(_advertise(DefaultIntervalUs, payload))
                 ELSE UNCHANGED <<connections, led_duty, adv_count>>
              /\ processed' = Append(processed, ev)
              /\ UNCHANGED <<running, pulse_i>>
           \/ /\ ev.op = "write"
              /\ IF ShouldFire(ev.vh, handle_rx, write_callback) /\ write_callback = "on_receive"
                 THEN /\ running' = <<ev>>
                      /\ pulse_i' = 0
                      /\ UNCHANGED processed
                 ELSE /\ processed' = Append(processed, ev)
                      /\ UNCHANGED <<running, pulse_i>>
              /\ UNCHANGED <<connections, led_duty, adv_count>>
    /\ UNCHANGED <<write_callback, handle_tx, handle_rx, payload, trace, last,
                   enc_vars, delivered>>

NextDemo ==
    \/ \E ev \in DemoEvents : Deliver(ev)
    \/ Dispatch
    \/ PulseStep
    \/ PulseDone
    \/ DemoLoop

\* the handler is run whenever an event waits, and pulse's loop goes on
SpecDemo ==
    /\ InitDemo
    /\ [][NextDemo]_vars
    /\ WF_vars(Dispatch)
    /\ WF_vars(PulseStep)
    /\ WF_vars(PulseDone)

(***************************************************************************)
(* The encoder's specification.  The session is one that was constructed   *)
(* and stays as it is.                                                     *)
(***************************************************************************)
InitEnc ==
    /\ \E tx, rx \in AttrHandles :
          /\ tx < rx
          /\ handle_tx = tx
          /\ handle_rx = rx
    /\ connections = {}
    /\ write_callback = "None"
    /\ payload = Apply(FALSE, InitArgs).bytes
    /\ led_duty = 0
    /\ adv_count = Len(_advertise(DefaultIntervalUs, payload))
    /\ trace = <<>>
    /\ last = [NoLast EXCEPT !.op = "__init__",
                             !.init_calls = InitCalls,
                             !.advertised = _advertise(DefaultIntervalUs, payload)]
    /\ enc_args \in EncArgs
    /\ enc_result = Ok(<<>>)
    /\ enc_pc = "call"
    /\ queue = <<>>
    /\ delivered = <<>>
    /\ processed = <<>>
    /\ running = <<>>
    /\ pulse_i = 0

\* payload = advertising_payload(...), on an interpreter whose struct.pack
\* checks ranges or on one whose struct.pack truncates
Encode ==
    /\ enc_pc = "call"
    /\ \E checked \in BOOLEAN : enc_result' = Apply(checked, enc_args)
    /\ enc_pc' = "done"
    /\ UNCHANGED <<enc_args, session_vars, demo_vars>>

NextEnc == Encode

SpecEnc == InitEnc /\ [][NextEnc]_vars

(***************************************************************************)
(* Properties of the session.                                              *)
(***************************************************************************)
\* C1: a Disconnect for a handle that is not in the open-connection set
\* completes without raising and leaves the set as it was.
C1_StaleDisconnectIgnored ==
    (last.op = "disconnect" /\ last.conn_handle \notin last.pre_connections)
        => (~last.raised /\ connections = last.pre_connections)

\* C2: every Disconnect event, tracked handle or not, issues exactly one
\* gap_advertise call with the precomputed payload before the handler returns.
C2_DisconnectAlwaysAdvertises ==
    last.op = "disconnect"
        => (/\ Len(last.advertised) = 1
            /\ last.advertised[1].adv_data = payload)

\* C3: from a fresh session (one advertise call, no connection), Connect(h)
\* makes is_connected() true, and a following Disconnect(h) makes it false
\* again and brings the number of advertise calls to exactly two.
C3_ConnectThenDisconnect ==
    /\ (Constructed /\ trace = <<>>) => (adv_count = 1 /\ ~is_connected(connections))
    /\ \A h \in ConnHandles :
          /\ trace = <<Entry("connect", h, "None")>> => is_connected(connections)
          /\ trace = <<Entry("connect", h, "None"), Entry("disconnect", h, "None")>>
                => (~is_connected(connections) /\ adv_count = 2)

C3_Witness ==
    \E h \in ConnHandles :
        /\ trace = <<Entry("connect", h, "None"), Entry("disconnect", h, "None")>>
        /\ last.op = "disconnect"
        /\ ~last.raised

\* the handles with a Connect event in the log and no later Disconnect event
OpenByLog(log) ==
    {h \in ConnHandles :
        \E i \in 1..Len(log) :
            /\ log[i] = Entry("connect", h, "None")
            /\ \A j \in (i + 1)..Len(log) : log[j] # Entry("disconnect", h, "None")}

\* C4: the open-connection set is the set of handles with a delivered Connect
\* and no later Disconnect, and is_connected() is true iff that set is non-empty.
C4_ConnectionsFollowEvents ==
    /\ connections = OpenByLog(trace)
    /\ is_connected(connections) <=> OpenByLog(trace) # {}
    /\ last.op = "is_connected" => (last.ret <=> OpenByLog(trace) # {})

C4_Witness ==
    /\ last.op = "is_connected"
    /\ last.ret
    /\ Cardinality(connections) = 1
    /\ \E i \in 1..Len(trace) : trace[i].op = "disconnect"

\* C5: send(data) issues exactly one notify per open connection, each on the
\* TX handle with data unchanged, none for any other handle, and none at all
\* when no connection is open.
C5_SendNotifiesEachOnce ==
    last.op = "send"
        => (/\ Len(last.notified) = Cardinality(connections)
            /\ {last.notified[i].conn_handle : i \in 1..Len(last.notified)} = connections
            /\ \A i \in 1..Len(last.notified) :
                  /\ last.notified[i].value_handle = handle_tx
                  /\ last.notified[i].data = last.data
            /\ connections = {} => last.notified = <<>>
            /\ connections = last.pre_connections)

C5_Witness ==
    /\ last.op = "send"
    /\ Cardinality(connections) = 2
    /\ Len(last.notified) = 2
    /\ last.data # <<>>

\* C6: a Write event invokes the write callback exactly once, with the value
\* gatts_read returned for that attribute, iff the attribute is the RX handle
\* and a callback is registered; otherwise it invokes nothing; it never raises
\* and never changes the connection set.
C6_WriteFiresIffRxAndCallback ==
    last.op = "write"
        => (/\ Len(last.read) = 1
            /\ last.read[1].value_handle = last.value_handle
            /\ last.called =
                  IF last.value_handle = handle_rx /\ write_callback # "None"
                  THEN <<[callback |-> write_callback, value |-> last.read[1].value]>>
                  ELSE <<>>
            /\ ~last.raised
            /\ connections = last.pre_connections)

C6_Witness ==
    /\ last.op = "write"
    /\ last.value_handle = handle_rx
    /\ Len(last.called) = 1
    /\ connections # {}

RECURSIVE LastRegistered(_)
\* the callback of the latest on_write in the log, "None" when there is none
LastRegistered(log) ==
    IF log = <<>> THEN "None"
    ELSE IF log[Len(log)].op = "on_write" THEN log[Len(log)].cb
    ELSE LastRegistered(SubSeq(log, 1, Len(log) - 1))

\* C7: a Write on the RX attribute invokes only the most recently registered
\* callback, never an earlier one.
C7_LastRegistrationWins ==
    (last.op = "write" /\ last.value_handle = handle_rx)
        => (/\ \A i \in 1..Len(last.called) :
                  last.called[i].callback = LastRegistered(trace)
            /\ LastRegistered(trace) # "None" => Len(last.called) = 1)

C7_Witness ==
    /\ last.op = "write"
    /\ Len(last.called) = 1
    /\ \E i, j \in 1..Len(trace) :
          /\ i < j
          /\ trace[i].op = "on_write"
          /\ trace[j].op = "on_write"
          /\ trace[i].cb # "None"
          /\ trace[j].cb # "None"
          /\ trace[i].cb # trace[j].cb

(***************************************************************************)
(* Properties of the encoder.                                              *)
(***************************************************************************)
Returned == enc_pc = "done" /\ ~enc_result.raised

NameLen(a) == IF a.name.none THEN 0 ELSE Len(a.name.b)

RECURSIVE ParsesFrom(_, _)
\* p[i..] is a sequence of whole [length][type][value] fields
ParsesFrom(p, i) ==
    IF i = Len(p) + 1 THEN TRUE
    ELSE /\ i + 1 <= Len(p)
         /\ p[i] >= 1
         /\ i + p[i] <= Len(p)
         /\ ParsesFrom(p, i + 1 + p[i])

RECURSIVE SumSizes(_, _)
\* the sum of (length byte + length) over the fields from p[i] on
SumSizes(p, i) ==
    IF i > Len(p) THEN 0 ELSE 1 + p[i] + SumSizes(p, i + 1 + p[i])

WellFormed(p) == ParsesFrom(p, 1) /\ SumSizes(p, 1) = Len(p)

\* C8 as stated: for all inputs the returned bytes parse completely as
\* [length][type][value] fields whose sizes add up to the payload's length.
C8_AllInputsWellFormed == Returned => WellFormed(enc_result.bytes)

\* C8 amended: the same, for every input whose name is at most 254 bytes long.
C8_WellFormedWhenNameFits ==
    (Returned /\ NameLen(enc_args) <= 254) => WellFormed(enc_result.bytes)

C8_Witness ==
    /\ Returned
    /\ NameLen(enc_args) = 254
    /\ Truthy(enc_args.services)
    /\ Len(enc_args.services.b) = 2
    /\ \A i \in 1..2 : Len(enc_args.services.b[i]) \in {2, 4, 16}
    /\ enc_args.appearance # 0
    /\ Len(enc_result.bytes) > 256

RECURSIVE BitOr(_, _)
BitOr(a, b) ==
    IF a = 0 THEN b
    ELSE IF b = 0 THEN a
    ELSE (IF a % 2 = 1 \/ b % 2 = 1 THEN 1 ELSE 0) + 2 * BitOr(a \div 2, b \div 2)

\* C9: the first field of every payload is a Flags field (length 2, type 0x01)
\* whose value is (0x01 if limited_disc else 0x02) OR (0x18 if br_edr else 0x04):
\* 0x05, 0x1A, 0x06 and 0x19 for the four combinations.
C9_FlagsFirst ==
    Returned
        => LET p == enc_result.bytes
               l == enc_args.limited_disc
               c == enc_args.br_edr
           IN  /\ Len(p) >= 3
               /\ p[1] = 2
               /\ p[2] = 1
               /\ p[3] = BitOr(IF l THEN 1 ELSE 2, IF c THEN 24 ELSE 4)
               /\ (l /\ ~c) => p[3] = 5
               /\ (~l /\ c) => p[3] = 26
               /\ (~l /\ ~c) => p[3] = 6
               /\ (l /\ c) => p[3] = 25

C9_Witness ==
    /\ Returned
    /\ enc_args.limited_disc
    /\ enc_args.br_edr
    /\ enc_result.bytes[3] = 25

\* the bytes between the Flags and name fields and the Appearance field
UuidRegion(a, p) ==
    SubSeq(p, 3 + (IF Truthy(a.name) THEN 2 + Len(a.name.b) ELSE 0) + 1,
              Len(p) - (IF a.appearance # 0 THEN 4 ELSE 0))

RECURSIVE ParseFields(_, _)
\* the fields of p from index i on, as records of type and value
ParseFields(p, i) ==
    IF i + 1 > Len(p) \/ p[i] < 1 \/ i + p[i] > Len(p) THEN <<>>
    ELSE <<[type |-> p[i + 1], value |-> SubSeq(p, i + 2, i + p[i])]>>
         \o ParseFields(p, i + 1 + p[i])

Supported(b) == Len(b) \in {2, 4, 16}

UuidTag(b) == IF Len(b) = 2 THEN 3 ELSE IF Len(b) = 4 THEN 5 ELSE 7

\* one field per UUID of 2, 4 or 16 bytes, in the order of the list
ExpectedUuidFields(services) ==
    IF services.none THEN <<>>
    ELSE LET kept == SelectSeq(services.b, Supported)
         IN  [i \in 1..Len(kept) |-> [type |-> UuidTag(kept[i]), value |-> kept[i]]]

\* C10: the payload holds exactly one UUID field per UUID of 2, 4 or 16 bytes,
\* tagged 0x03, 0x05 or 0x07, with the UUID's bytes, in the order of the list;
\* a UUID of another length adds no field, raises nothing and leaves the
\* fields of the other UUIDs as they are.  (A call that raises does so for
\* its name or its appearance.)
C10_UuidFields ==
    /\ Returned
          => LET r == UuidRegion(enc_args, enc_result.bytes)
             IN  /\ ParsesFrom(r, 1)
                 /\ ParseFields(r, 1) = ExpectedUuidFields(enc_args.services)
    /\ (enc_pc = "done" /\ enc_result.raised)
          => (NameLen(enc_args) > 254 \/ enc_args.name.str \/ enc_args.appearance > 32767)

C10_Witness ==
    /\ Returned
    /\ Truthy(enc_args.services)
    /\ Len(enc_args.services.b) = 2
    /\ Len(enc_args.services.b[1]) = 3
    /\ Len(enc_args.services.b[2]) = 16
    /\ Len(ParseFields(UuidRegion(enc_args, enc_result.bytes), 1)) = 1

\* the fields of type t among the fields of p
FieldsOfType(p, t) ==
    LET fs == ParseFields(p, 1)
    IN  {i \in 1..Len(fs) : fs[i].type = t}

\* C11: for every appearance code 1..65535 the call succeeds and the payload
\* ends with the Appearance field [3][0x19][low byte][high byte]; for
\* appearance 0 there is no Appearance field.  (Stated for names that are
\* bytes and fit.)
C11_AppearanceField ==
    (enc_pc = "done" /\ NameLen(enc_args) <= 254 /\ ~enc_args.name.str)
        => LET a == enc_args.appearance
               p == enc_result.bytes
           IN  /\ ~enc_result.raised
               /\ a # 0 => /\ Len(p) >= 4
                           /\ SubSeq(p, Len(p) - 3, Len(p)) = <<3, 25, a % 256, a \div 256>>
               /\ a = 0 => FieldsOfType(p, 25) = {}

\* C12 as stated: a non-empty name gives exactly one Complete-Local-Name field
\* [len(name)+1][0x09] name, right after the Flags field and before any UUID
\* or Appearance field; no name or an empty name gives no name field.
C12_NameField ==
    Returned
        => LET p == enc_result.bytes
               n == enc_args.name
           IN  IF Truthy(n)
               THEN /\ Len(p) >= 5 + Len(n.b)
                    /\ SubSeq(p, 4, 5 + Len(n.b)) = <<Len(n.b) + 1, 9>> \o n.b
                    /\ WellFormed(p)
                    /\ FieldsOfType(p, 9) = {2}
               ELSE FieldsOfType(p, 9) = {}

\* C12 amended: the same, for names of at most 254 bytes.
C12_NameFieldWhenNameFits == NameLen(enc_args) <= 254 => C12_NameField

C12_Witness ==
    /\ Returned
    /\ enc_args.name = SomeBytes(DefaultName)
    /\ SubSeq(enc_result.bytes, 4, 12) = <<8, 9>> \o DefaultName
    /\ Truthy(enc_args.services)
    /\ Len(enc_args.services.b[1]) = 16
    /\ enc_args.appearance # 0

\* C13: the payload precomputed by the session with its default name fits
\* the radio's 31 bytes of advertising data, and so does the payload of
\* every advertise call the session issues.
C13_DefaultPayloadFits31 ==
    /\ enc_args.name.b = DefaultName
    /\ Len(payload) <= 31
    /\ \A i \in 1..Len(last.advertised) : Len(last.advertised[i].adv_data) <= 31

C13_Witness ==
    /\ last.op = "disconnect"
    /\ Len(last.advertised) = 1
    /\ Len(last.advertised[1].adv_data) = 30
    /\ adv_count = 2

\* C14: whenever no handler is running, the LED is full-on iff the
\* open-connection set is non-empty and off iff it is empty.
C14_LedReflectsConnections ==
    running = <<>>
        => /\ led_duty = 1000 <=> connections # {}
           /\ led_duty = 0 <=> connections = {}

\* C15: only Connect and Disconnect events change the open-connection set;
\* send, is_connected, on_write, advertise and Write leave it unchanged, and
\* send and is_connected also leave the write-callback slot unchanged.
C15_OnlyEventsChangeConnections ==
    [][/\ last'.op \in {"send", "is_connected", "on_write", "advertise", "write"}
            => connections' = connections
       /\ last'.op \in {"send", "is_connected"}
            => write_callback' = write_callback]_vars

C15_Witness ==
    /\ last.op = "send"
    /\ Len(last.notified) >= 1
    /\ connections # {}
    /\ write_callback # "None"

\* C16: advertise changes neither the connection set, the write-callback
\* slot nor the attribute handles, however often it is called, and every
\* advertise call passes the payload computed at construction.
C16_AdvertiseIdempotent ==
    /\ [](/\ payload = enc_result.bytes
          /\ \A i \in 1..Len(last.advertised) :
                last.advertised[i].adv_data = enc_result.bytes)
    /\ [][last'.op = "advertise"
            => /\ connections' = connections
               /\ write_callback' = write_callback
               /\ handle_tx' = handle_tx
               /\ handle_rx' = handle_rx
               /\ payload' = payload]_vars

C16_Witness ==
    /\ last.op = "advertise"
    /\ Len(trace) >= 3
    /\ trace[Len(trace) - 1].op = "advertise"
    /\ connections # {}
    /\ adv_count >= 3

\* C19: construction calls active(True), irq, gatts_register_services and
\* gap_advertise in this order and ends with no connection, no write
\* callback and one advertise call; no operation or event reassigns the
\* TX and RX handles afterwards (every action leaves them as they are, see
\* C19_HandlesFixed).
C19_Construction ==
    trace = <<>>
        => /\ last.op = "__init__"
           /\ last.init_calls = <<"active(True)", "irq(handler=self._irq)",
                                  "gatts_register_services", "gap_advertise">>
           /\ ~last.raised
           /\ connections = {}
           /\ write_callback = "None"
           /\ Len(last.advertised) = 1
           /\ adv_count = 1
           /\ handle_tx # handle_rx

\* the TX and RX handles are assigned by __init__ only
C19_HandlesFixed == [][handle_tx' = handle_tx /\ handle_rx' = handle_rx]_vars

\* the n-th operation of the log is a Connect for a handle that is open
DupConnect(log, n) ==
    /\ n >= 2
    /\ log[n].op = "connect"
    /\ log[n].h \in OpenByLog(SubSeq(log, 1, n - 1))

\* C20: a Connect for a handle that is already open leaves the set as it is;
\* a following send notifies that handle exactly once, and a single
\* following Disconnect removes it (is_connected() is false if it was alone).
C20_DuplicateConnectIdempotent ==
    LET n == Len(trace)
    IN  /\ DupConnect(trace, n)
              => /\ connections = last.pre_connections
                 /\ last.conn_handle \in connections
        /\ (n >= 3 /\ DupConnect(trace, n - 1) /\ last.op = "send")
              => Cardinality({i \in 1..Len(last.notified) :
                                 last.notified[i].conn_handle = trace[n - 1].h}) = 1
        /\ (n >= 3 /\ DupConnect(trace, n - 1) /\ last.op = "disconnect"
                   /\ last.conn_handle = trace[n - 1].h)
              => /\ ~last.raised
                 /\ last.conn_handle \notin connections
                 /\ last.pre_connections = {last.conn_handle}
                        => ~is_connected(connections)

C20_Witness ==
    /\ Len(trace) >= 3
    /\ DupConnect(trace, Len(trace) - 1)
    /\ last.op = "disconnect"
    /\ last.conn_handle = trace[Len(trace) - 1].h
    /\ last.pre_connections = {last.conn_handle}
    /\ connections = {}

\* C17: a radio failure is propagated without retry.  When a notify fails,
\* send ends with the error, the failed notify is not issued again and no
\* notify is made for the remaining connections; when the advertise of a
\* Disconnect fails, the error leaves the handler with the handle already
\* removed and one advertise attempt.  A failing advertise of _advertise()
\* or of __init__ is one attempt as well and leaves the session as it was.
C17_FailuresPropagate ==
    /\ (last.op = "send" /\ last.failed > 0)
          => /\ last.raised
             /\ Len(last.notified) = last.failed
             /\ \A i, j \in 1..Len(last.notified) :
                   i # j => last.notified[i].conn_handle # last.notified[j].conn_handle
             /\ \A i \in 1..Len(last.notified) :
                   last.notified[i].conn_handle \in connections
             /\ connections = last.pre_connections
    /\ (last.op = "disconnect" /\ last.failed > 0)
          => /\ last.raised
             /\ last.conn_handle \in last.pre_connections
             /\ connections = last.pre_connections \ {last.conn_handle}
             /\ Len(last.advertised) = 1
    /\ (last.op = "advertise" /\ last.failed > 0)
          => /\ last.raised
             /\ connections = last.pre_connections
             /\ Len(last.advertised) = 1
    /\ (last.op = "__init__" /\ last.failed > 0)
          => /\ last.raised
             /\ Len(last.advertised) = 1
             /\ adv_count = 1

C17_Witness ==
    /\ last.op = "send"
    /\ last.failed = 1
    /\ last.raised
    /\ Cardinality(connections) = 2
    /\ Len(last.notified) = 1

\* C18: with on_receive registered and one handler at a time, the handling
\* of a Write on the RX attribute ends after exactly 20 steps of the
\* indicator; an event delivered during the pulse does not change the
\* connection set before the pulse is over; every delivered event is
\* eventually processed, in the order of delivery.
C18_PulseDelaysEvents ==
    /\ [][(running # <<>> /\ running' = <<>>) => pulse_i = 20]_vars
    /\ (running # <<>>) ~> (running = <<>>)
    /\ [][running # <<>> => connections' = connections]_vars
    /\ [](/\ Len(processed) <= Len(delivered)
          /\ processed = SubSeq(delivered, 1, Len(processed)))
    /\ \A k \in 1..MaxEvents : (Len(delivered) >= k) ~> (Len(processed) >= k)

C18_Witness ==
    /\ running # <<>>
    /\ pulse_i = 10
    /\ \E i \in 1..Len(queue) : queue[i].op = "connect"
    /\ Len(processed) < Len(delivered)

====
